---- MODULE Spec2Model ----
(***************************************************************************)
(* Model of the prometheus fileage exporter (exporter/exporter.go): the    *)
(* watch goroutine with its update() algorithm, the files it measures, the *)
(* fsnotify event streams, the health/liveness status handlers, the        *)
(* metrics handler and the attaching of the watchers in NewExporter.       *)
(*                                                                         *)
(* Time is an integer.  time.Time{} (the zero time, "Absent") is 0; real   *)
(* instants lie at Epoch and later, further from the zero time than the    *)
(* largest time.Duration, as in Go (year 1 versus today, against a         *)
(* Duration of at most about 292 years).                                   *)
(***************************************************************************)
EXTENDS Integers, Sequences, FiniteSets

\* ---------------------------------------------------------------- bounds
\* number of instants after Epoch the clock and the mtimes range over
MaxT == 2
\* number of changes made to the watched files in one behaviour
MaxChanges == 2
\* the same, in behaviours that also serve status requests
MaxServeChanges == 1
\* number of status requests served in one behaviour
MaxRequests == 1
\* number of scrapes of the metrics endpoint served in one behaviour
MaxScrapes == 1
\* number of errors the watchers report in one behaviour
MaxErrors == 1
\* number of events about other files the watchers deliver in one behaviour
MaxOtherEvents == 1
\* the same, in behaviours that serve scrapes only, one after the other
MaxSeqScrapes == 2
\* number of instants after Epoch the clock ranges over while NewExporter
\* attaches the watchers
MaxAttachT == 5
\* update() calls that have room to be in progress at once
MaxCalls == 2

\* ------------------------------------------------------- time arithmetic
\* time.Time{}: what measure() returns for a missing file
ZeroTime == 0
\* largest time.Duration; Sub and Since saturate at it
MaxDuration == 8
\* distance of the first modelled instant from the zero time
Epoch == 20

Instants == Epoch .. (Epoch + MaxT)

\* a file on disk is missing or has an mtime
NoFile == -1

IsZero(t) == t = ZeroTime

\* t.After(u)
After(t, u) == t > u

\* t.Sub(u): the difference, saturated to the range of time.Duration
Sub(t, u) ==
    LET d == t - u
    IN  IF d > MaxDuration THEN MaxDuration
        ELSE IF d < -MaxDuration THEN -MaxDuration
        ELSE d

VARIABLES
    now,          \* the wall clock
    c,            \* x.c: the configuration
    startup,      \* x.startup
    fs,           \* the two files on disk: name -> mtime or NoFile
    startEvents,  \* startWatcher.Events: names of the files events are about
    endEvents,    \* endWatcher.Events
    errors,       \* startWatcher.Errors, endWatcher.Errors: errors waiting
    pc,           \* position of the watch goroutine
    mStart,       \* update(): local start
    mEnd,         \* update(): local end
    mu,           \* x.mu: [writer |-> BOOLEAN, readers |-> Nat]
    start,        \* x.start
    end,          \* x.end
    oldEnd,       \* x.oldEnd
    promUpdateCount,     \* value of the counter
    promUpdateRunning,   \* value of the running gauge
    promUpdateDuration,  \* the observations of the summary, in order
    registered,   \* metrics registered with the prometheus registry
    req,          \* the status request in progress
    resp,         \* the last status response written
    scrape,       \* the scrape of the metrics endpoint in progress
    promUpdateAge,       \* value of the age gauge
    attach,       \* NewExporter: position in its createWatcher calls, timers
    dirs,         \* whether the parent directory of each file exists
    calls,        \* the update() calls in progress, each with its locals
    hist          \* history: what the environment and update() did so far

vars == <<now, c, startup, fs, startEvents, endEvents, errors, pc, mStart, mEnd, mu,
          start, end, oldEnd, promUpdateCount, promUpdateRunning,
          promUpdateDuration, registered, req, resp, scrape, promUpdateAge,
          attach, dirs, calls, hist>>

runState == <<start, end, oldEnd>>
metrics == <<promUpdateCount, promUpdateRunning, promUpdateDuration, registered>>
scrapeVars == <<scrape, promUpdateAge>>
httpVars == <<req, resp, scrapeVars>>
attachVars == <<attach, dirs>>

\* ---------------------------------------------------------- configuration
\* Config, as filled in by configure(): an empty StartFile disables the
\* start file; EndFile is set (NewExporter is fatal without it).  The
\* health probe has a short timeout and a grace period, the liveness probe
\* the longest timeout there is.
Configs ==
    { [StartFile |-> sf, EndFile |-> "end", HealthTimeout |-> 1,
       LivenessTimeout |-> MaxDuration, Welpenschutz |-> 1,
       DirectoryTimeout |-> MaxDuration] :
          sf \in {"", "start"} }

\* configurations of the probes alone: with and without a grace period,
\* with a short and a long liveness timeout, no start file
ProbeConfigs ==
    { [StartFile |-> "", EndFile |-> "end", HealthTimeout |-> 1,
       LivenessTimeout |-> t, Welpenschutz |-> g,
       DirectoryTimeout |-> MaxDuration] :
          t \in {1, MaxDuration}, g \in {0, 2} }

\* filepath.Base of the two configured files
bs == c.StartFile
be == c.EndFile

\* names of the four metrics
Metrics ==
    {"update_count_total", "update_age_seconds", "update_running",
     "update_duration_seconds"}

\* ------------------------------------------------------------ history
\* what has happened so far; read by the properties, never by the program
InitHist ==
    [ budget    |-> 0,       \* changes that may still be made to the files
      requests  |-> 0,       \* status requests started
      updated   |-> FALSE,   \* the first update() call has returned
      wasRunning |-> FALSE,  \* some update() set the running gauge to 1
      endExisted |-> FALSE,  \* the end file has existed at some time
      storedStart |-> ZeroTime,\* the start the last completed update() stored
      storedEnd |-> ZeroTime,\* the end the last completed update() stored
      freshEnd  |-> FALSE,   \* some update() measured an end not before startup
      ranSet    |-> FALSE,   \* the last update() called promUpdateRunning.Set
      rejectedOld |-> FALSE, \* x.oldEnd was stored by a call that rejected it as insane
      sameEnd   |-> FALSE,   \* the last update() measured the non-absent end of the one before
      counted   |-> {},      \* end values updateCount was incremented for
      lastEnd   |-> ZeroTime,\* last non-absent end an update() measured
      endSets   |-> 0,       \* times the end file got a new mtime not before startup
      calls     |-> 0,       \* update() calls begun
      matched   |-> 0,       \* events received with the name of the watcher's file
      others    |-> 0,       \* events about other files delivered
      errorsSent |-> 0,      \* errors the watchers reported
      errorsSeen |-> 0,      \* errors the watch loop received
      matchedAfterError |-> FALSE, \* a matching event was received after an error
      scrapes   |-> 0,       \* scrapes started
      scrapeBudget |-> 0,    \* scrapes that may still arrive
      sawStart  |-> FALSE,   \* some update() measured a non-absent start
      ageSets   |-> 0,       \* times a scrape set the age gauge
      registrations |-> [m \in Metrics |-> 0],
                             \* prometheus.MustRegister calls made for each metric
      scrapeSaw |-> 0,       \* updateCount when the last scrape started
      appeared  |-> [f \in {"start", "end"} |-> ZeroTime],
                             \* when the directory of f came into existence
      calledAt  |-> ZeroTime,\* when the current createWatcher call was made
      k         |-> 0,       \* failed w.Add attempts of the current call
      failedAt  |-> ZeroTime,\* when the last of them failed
      onlyEndSets |-> TRUE ] \* no start file, no end file from startup or later to
                             \* begin with, and every change so far was one of those

\* no status request is in progress
NoRequest ==
    [pc |-> "idle", handler |-> "", timeout |-> 0, welpenschutz |-> 0,
     myEnd |-> ZeroTime]

\* no status response was written yet
NoResponse ==
    [handler |-> "", status |-> 0, good |-> FALSE, last_update |-> ZeroTime,
     body |-> <<>>]

\* no watcher has reported an error
NoErrors == [w \in {"start", "end"} |-> 0]

\* no scrape is in progress
NoScrape == [pc |-> "idle", myEnd |-> ZeroTime]

\* no update() call: its locals hold nothing
NoCall == [pc |-> "none", mStart |-> ZeroTime, mEnd |-> ZeroTime, seq |-> 0]

\* no update() call was begun yet: none is in progress, none has measured,
\* none has stored its pair
NoCalls ==
    [act |-> [i \in 1 .. MaxCalls |-> NoCall], begun |-> 0, measured |-> 0,
     pair |-> <<ZeroTime, ZeroTime>>, stored |-> 0]

\* NewExporter has not looked at the configuration yet
NotAttached ==
    [pc |-> "validate", file |-> "start", backoff |-> 0, retryAt |-> ZeroTime,
     deadline |-> ZeroTime]

\* both createWatcher calls have returned and watch() was called
Attached == [NotAttached EXCEPT !.pc = "done", !.file = "end"]

\* ------------------------------------------------------------------ Init
\* the state when NewExporter returns: both watchers attached, the watch
\* goroutine started and about to make its first update() call, the
\* counter registered; the files may exist already, left over from before
\* startup or written in its instant
BootAll(budget, scrapes, startups, configs) ==
    /\ now = Epoch + 1
    /\ startup \in startups
    /\ c \in configs
    /\ fs \in [{"start", "end"} -> {NoFile} \cup {t \in Instants : t <= startup}]
    /\ (c.StartFile = "" => fs["start"] = NoFile)
    /\ startEvents = <<>>
    /\ endEvents = <<>>
    /\ errors = NoErrors
    /\ pc = "measureStart"
    /\ mStart = ZeroTime
    /\ mEnd = ZeroTime
    /\ mu = [writer |-> FALSE, readers |-> 0]
    /\ start = ZeroTime
    /\ end = ZeroTime
    /\ oldEnd = ZeroTime
    /\ promUpdateCount = 0
    /\ promUpdateRunning = 0
    /\ promUpdateDuration = <<>>
    /\ registered = {"update_count_total"}
    /\ req = NoRequest
    /\ resp = NoResponse
    /\ scrape = NoScrape
    /\ promUpdateAge = 0
    /\ attach = Attached
    /\ dirs = [f \in {"start", "end"} |-> TRUE]
    /\ calls = NoCalls
    /\ hist = [InitHist EXCEPT
                 !.budget = budget,
                 !.scrapeBudget = scrapes,
                 !.registrations["update_count_total"] = 1,
                 !.endExisted = fs["end"] # NoFile,
                 !.onlyEndSets = /\ fs["start"] = NoFile
                                 /\ fs["end"] = NoFile \/ fs["end"] < startup]

\* the same with at most MaxScrapes scrapes to come
BootWith(budget, startups, configs) == BootAll(budget, MaxScrapes, startups, configs)

\* NewExporter returns in the instant it was called in
Boot(budget) == BootWith(budget, {Epoch + 1}, Configs)

Init == Boot(MaxChanges)

\* ----------------------------------------------------------- environment
\* the wall clock advances
Tick ==
    /\ now < Epoch + MaxT
    /\ now' = now + 1
    /\ UNCHANGED <<c, startup, calls, errors, attachVars, fs, startEvents, endEvents, pc, mStart, mEnd, mu,
                   runState, metrics, httpVars, hist>>

\* the event a change of file f puts on the stream of the watcher of f's
\* directory; the start watcher of a disabled start file has no stream
Notify(f) ==
    /\ startEvents' = IF f = "start" THEN Append(startEvents, f) ELSE startEvents
    /\ endEvents' = IF f = "end" THEN Append(endEvents, f) ELSE endEvents

\* the monitored process (or anyone) sets the mtime of file f to t
Touch(f, t) ==
    /\ hist.budget > 0
    /\ f = "start" => c.StartFile # ""
    /\ fs' = [fs EXCEPT ![f] = t]
    /\ Notify(f)
    /\ hist' = [hist EXCEPT
                  !.budget = @ - 1,
                  !.endExisted = @ \/ f = "end",
                  !.endSets = IF f = "end" /\ t # fs["end"] /\ t >= startup
                              THEN @ + 1 ELSE @,
                  !.onlyEndSets = @ /\ f = "end" /\ t # fs["end"] /\ t >= startup]
    /\ UNCHANGED <<now, c, startup, calls, errors, attachVars, pc, mStart, mEnd, mu, runState, metrics, httpVars>>

\* file f is removed
Remove(f) ==
    /\ hist.budget > 0
    /\ fs[f] # NoFile
    /\ fs' = [fs EXCEPT ![f] = NoFile]
    /\ Notify(f)
    /\ hist' = [hist EXCEPT !.budget = @ - 1, !.onlyEndSets = FALSE]
    /\ UNCHANGED <<now, c, startup, calls, errors, attachVars, pc, mStart, mEnd, mu, runState, metrics, httpVars>>

\* another file in the directory of watcher w changes: an event with that
\* file's name, which may be the name of the other watched file when both
\* are in one directory
OtherEvent(w, name) ==
    /\ hist.others < MaxOtherEvents
    /\ w = "start" => c.StartFile # ""
    /\ name # (IF w = "start" THEN bs ELSE be)
    /\ startEvents' = IF w = "start" THEN Append(startEvents, name) ELSE startEvents
    /\ endEvents' = IF w = "end" THEN Append(endEvents, name) ELSE endEvents
    /\ hist' = [hist EXCEPT !.others = @ + 1]
    /\ UNCHANGED <<now, c, startup, calls, errors, attachVars, fs, pc, mStart, mEnd, mu,
                   runState, metrics, httpVars>>

\* watcher w reports an error on its Errors channel
WatcherError(w) ==
    /\ hist.errorsSent < MaxErrors
    /\ w = "start" => c.StartFile # ""
    /\ errors' = [errors EXCEPT ![w] = @ + 1]
    /\ hist' = [hist EXCEPT !.errorsSent = @ + 1]
    /\ UNCHANGED <<now, c, startup, calls, attachVars, fs, startEvents, endEvents, pc, mStart,
                   mEnd, mu, runState, metrics, httpVars>>

\* ------------------------------------------------------------- measure()
\* zero time for an empty filename or a failing os.Stat, else the mtime
measure(filename) ==
    IF filename = "" THEN ZeroTime
    ELSE IF fs[filename] = NoFile THEN ZeroTime
    ELSE fs[filename]

\* ------------------------------------------------------ watch goroutine
\* every event is taken for one of the watched file
MatchesAny(name, base) == TRUE

\* watch(): filepath.Base(e.Name) == bs, or be
Matches(name, base) == name = base

\* the history after the watch loop received an event with this name from
\* the watcher of a file with this base name
Received(name, base) ==
    [hist EXCEPT !.matched = IF name = base THEN @ + 1 ELSE @,
                 !.matchedAfterError = @ \/ (name = base /\ hist.errorsSeen > 0)]

\* select receives an event from startWatcher.Events; update() is called
\* when the event's base name is the start file's
RecvStartEvent ==
    /\ pc = "select"
    /\ startEvents # <<>>
    /\ startEvents' = Tail(startEvents)
    /\ pc' = IF Matches(Head(startEvents), bs) THEN "measureStart" ELSE "select"
    /\ hist' = Received(Head(startEvents), bs)
    /\ UNCHANGED <<now, c, startup, calls, errors, attachVars, fs, endEvents, mStart, mEnd, mu,
                   runState, metrics, httpVars>>

\* select receives an event from endWatcher.Events
RecvEndEvent ==
    /\ pc = "select"
    /\ endEvents # <<>>
    /\ endEvents' = Tail(endEvents)
    /\ pc' = IF Matches(Head(endEvents), be) THEN "measureStart" ELSE "select"
    /\ hist' = Received(Head(endEvents), be)
    /\ UNCHANGED <<now, c, startup, calls, errors, attachVars, fs, startEvents, mStart, mEnd, mu,
                   runState, metrics, httpVars>>

\* the loop ends with the first error
StoppedAfterError == "stopped"

\* watch(): after an error was logged the for loop goes on to the next
\* select
AfterError == "select"

\* select receives an error from the Errors channel of watcher w and logs
\* it
RecvError(w) ==
    /\ pc = "select"
    /\ errors[w] > 0
    /\ errors' = [errors EXCEPT ![w] = @ - 1]
    /\ pc' = AfterError
    /\ hist' = [hist EXCEPT !.errorsSeen = @ + 1]
    /\ UNCHANGED <<now, c, startup, calls, attachVars, fs, startEvents, endEvents, mStart, mEnd,
                   mu, runState, metrics, httpVars>>

\* case err := <-startWatcher.Errors
RecvStartError == RecvError("start")

\* case err := <-endWatcher.Errors
RecvEndError == RecvError("end")

\* update(): start := measure(x.c.StartFile), before the lock is taken
MeasureStart ==
    /\ pc = "measureStart"
    /\ mStart' = measure(c.StartFile)
    /\ pc' = "measureEnd"
    /\ hist' = [hist EXCEPT !.calls = @ + 1]
    /\ UNCHANGED <<now, c, startup, calls, errors, attachVars, fs, startEvents, endEvents, mEnd, mu,
                   runState, metrics, httpVars>>

\* update(): end := measure(x.c.EndFile)
MeasureEnd ==
    /\ pc = "measureEnd"
    /\ mEnd' = measure(c.EndFile)
    /\ pc' = "lock"
    /\ UNCHANGED <<now, c, startup, calls, errors, attachVars, fs, startEvents, endEvents, mStart, mu,
                   runState, metrics, httpVars, hist>>

\* the writer does not wait for the readers (RLock taken for Lock)
CanLockBesideReaders(m) == ~m.writer

\* sync.RWMutex: Lock() returns when no reader and no writer holds the lock
CanLock(m) == ~m.writer /\ m.readers = 0

\* sync.RWMutex: RLock() returns when no writer holds the lock
CanRLock(m) == ~m.writer

\* update(): x.mu.Lock()
Lock ==
    /\ pc = "lock"
    /\ CanLock(mu)
    /\ mu' = [mu EXCEPT !.writer = TRUE]
    /\ pc' = "locked"
    /\ UNCHANGED <<now, c, startup, calls, errors, attachVars, fs, startEvents, endEvents, mStart, mEnd,
                   runState, metrics, httpVars, hist>>

\* the guard left out: the gauge is set whatever start is
SeesStartAlways(s) == TRUE

\* the running block is entered whenever a start file is configured
SeesStartIfConfigured(s) == c.StartFile # ""

\* update(): the guard of the running-gauge block, !start.IsZero()
SeesStart(s) == ~IsZero(s)

\* start.After(end) replaced by !start.Before(end)
RunningNotBefore(s, e) == IF IsZero(e) \/ s >= e THEN 1 ELSE 0

\* the start.After(end) test left out
RunningOnlyAbsentEnd(s, e) == IF IsZero(e) THEN 1 ELSE 0

\* update(): the value the running gauge is set to
Running(s, e) == IF IsZero(e) \/ After(s, e) THEN 1 ELSE 0

\* the comparison with x.oldEnd left out
NewEndNoDebounce(e, old) == ~IsZero(e)

\* the !end.IsZero() test left out
NewEndOrAbsent(e, old) == e # old

\* update(): a new end was measured, !end.IsZero() && end != x.oldEnd
NewEnd(e, old) == ~IsZero(e) /\ e # old

\* start.After(end) replaced by !start.Before(end)
InsaneNotBefore(s, e, su) == s >= e \/ After(su, e)

\* the start.After(end) test left out
InsaneNoStart(s, e, su) == After(su, e)

\* the x.startup.After(end) test left out
InsaneNoStartup(s, e, su) == After(s, e)

\* an Absent start counts as insane
InsaneAbsentStart(s, e, su) == IsZero(s) \/ After(s, e) \/ After(su, e)

\* update(): the run is not counted, start.After(end) || x.startup.After(end)
Insane(s, e, su) == After(s, e) \/ After(su, e)

\* the counter incremented twice
IncTwice(n) == n + 2

\* promUpdateCount.Inc()
Inc(n) == n + 1

\* update(): x.start, x.end = start, end assigns x.start first; until
\* x.end is assigned too the pair is that of two different measurements
AssignStart ==
    /\ pc = "locked"
    /\ start' = mStart
    /\ pc' = "assigned"
    /\ UNCHANGED <<now, c, startup, calls, errors, attachVars, fs, startEvents, endEvents, mStart, mEnd, mu,
                   end, oldEnd, metrics, httpVars, hist>>

\* the arguments of end.Sub(start) swapped
ObservedSwapped(s, e) == Sub(s, e)

\* update(): the duration observed, end.Sub(start).Seconds(); durations
\* are counted in seconds here
Observed(s, e) == Sub(e, s)

\* x.oldEnd overwritten by every call
RememberedAlways(e, old, new, counts) == e

\* x.oldEnd assigned only after the sanity check, with the increment
RememberedIfCounted(e, old, new, counts) == IF counts THEN e ELSE old

\* x.oldEnd is never assigned
RememberedNever(e, old, new, counts) == old

\* update(): x.oldEnd = end, for a new end, before the sanity check
Remembered(e, old, new, counts) == IF new THEN e ELSE old

\* the deferred Unlock left out
UnlockForgotten(m) == m

\* update(): the deferred x.mu.Unlock()
Unlock(m) == [m EXCEPT !.writer = FALSE]

\* the duration observed for every counted run
ObservesEveryCount(counts, s) == counts

\* the duration is observed outside the block that counts
ObservesEveryStart(counts, s) == ~IsZero(s)

\* update(): a duration is observed for a counted run with a start,
\* !start.IsZero()
Observes(counts, s) == counts /\ ~IsZero(s)

\* the function is run by every Do
OnceDoAlways(m) == TRUE

\* sync.Once.Do of the Once that registers metric m: the function is run
\* by the first Do only
OnceDo(m) == m \notin registered

\* update(): everything from the assignment of x.start and x.end to the
\* deferred x.mu.Unlock(), for the measured start s and end e
UpdateBody(s, e) ==
    LET sees == SeesStart(s)
        new == NewEnd(e, oldEnd)
        counts == new /\ ~Insane(s, e, startup)
        observes == Observes(counts, s)
    IN  /\ start' = s
        /\ end' = e
        /\ promUpdateRunning' = IF sees THEN Running(s, e) ELSE promUpdateRunning
        /\ oldEnd' = Remembered(e, oldEnd, new, counts)
        /\ promUpdateCount' = IF counts THEN Inc(promUpdateCount) ELSE promUpdateCount
        /\ promUpdateDuration' = IF observes
                                 THEN Append(promUpdateDuration, Observed(s, e))
                                 ELSE promUpdateDuration
        /\ registered' = registered
                           \cup (IF sees THEN {"update_running"} ELSE {})
                           \cup (IF observes THEN {"update_duration_seconds"} ELSE {})
        /\ hist' = [hist EXCEPT
                      !.updated = TRUE,
                      !.sawStart = @ \/ ~IsZero(s),
                      !.registrations["update_running"] =
                          IF sees /\ OnceDo("update_running") THEN @ + 1 ELSE @,
                      !.registrations["update_duration_seconds"] =
                          IF observes /\ OnceDo("update_duration_seconds")
                          THEN @ + 1 ELSE @,
                      !.wasRunning = @ \/ (sees /\ Running(s, e) = 1),
                      !.storedStart = s,
                      !.storedEnd = e,
                      !.freshEnd = @ \/ (~IsZero(e) /\ e >= startup),
                      !.ranSet = sees,
                      !.rejectedOld = IF new THEN Insane(s, e, startup) ELSE @,
                      !.sameEnd = ~IsZero(e) /\ e = end,
                      !.counted = IF counts THEN @ \cup {e} ELSE @,
                      !.lastEnd = IF IsZero(e) THEN @ ELSE e]

\* prometheus.MustRegister panics when the registry holds the collector
\* already
MustRegisterPanics(m) == m \in registered

\* update(): one of its two MustRegister calls is made and panics, for the
\* measured start s and end e; a panic in the watch goroutine ends the
\* process
Panics(s, e) ==
    LET counts == NewEnd(e, oldEnd) /\ ~Insane(s, e, startup)
    IN  \/ /\ SeesStart(s)
           /\ OnceDo("update_running")
           /\ MustRegisterPanics("update_running")
        \/ /\ Observes(counts, s)
           /\ OnceDo("update_duration_seconds")
           /\ MustRegisterPanics("update_duration_seconds")

\* insane values end the process
FatalIfInsane(rejected) == IF rejected THEN "fatal" ELSE "select"

\* update() returns to the for loop of watch(), which goes on to the next
\* select; the insane-values branch logs and returns like every other
\* path
AfterUpdate(rejected) == "select"

\* update() from the assignment of x.end to the function's return
Update ==
    /\ pc = "assigned"
    /\ UpdateBody(mStart, mEnd)
    /\ mu' = Unlock(mu)
    /\ mStart' = ZeroTime
    /\ mEnd' = ZeroTime
    /\ pc' = IF Panics(mStart, mEnd)
             THEN "panic"
             ELSE AfterUpdate(NewEnd(mEnd, oldEnd) /\ Insane(mStart, mEnd, startup))
    /\ UNCHANGED <<now, c, startup, calls, errors, attachVars, fs, startEvents, endEvents, httpVars>>

\* -------------------------------------------------------- status handlers
\* the arguments of the subtraction swapped
SinceSwapped(t) == Sub(t, now)

\* the difference wraps around at the largest duration instead of
\* stopping there
SinceWrapped(t) ==
    LET d == now - t
    IN  IF d > MaxDuration THEN d - (2 * MaxDuration + 1) ELSE d

\* time.Since(t) = time.Now().Sub(t)
Since(t) == Sub(now, t)

\* updateAge < timeout replaced by updateAge <= timeout
GoodAtTimeout(updateAge, sinceStartup, timeout, welpenschutz) ==
    IF welpenschutz > 0 /\ sinceStartup < welpenschutz
    THEN TRUE
    ELSE updateAge <= timeout

\* the grace period lasts one instant longer
GoodAtGraceEnd(updateAge, sinceStartup, timeout, welpenschutz) ==
    IF welpenschutz > 0 /\ sinceStartup <= welpenschutz
    THEN TRUE
    ELSE updateAge < timeout

\* writeStatusResponse: good, from the age of the end, the time since
\* startup, the timeout and the grace period
Good(updateAge, sinceStartup, timeout, welpenschutz) ==
    IF welpenschutz > 0 /\ sinceStartup < welpenschutz
    THEN TRUE
    ELSE updateAge < timeout

\* a request arrives at the server, which main starts when NewExporter has
\* returned, and writeStatusResponse takes x.mu.RLock()
StatusRequest(handler, timeout, welpenschutz) ==
    /\ attach.pc = "done"
    /\ req.pc = "idle"
    /\ hist.requests < MaxRequests
    /\ CanRLock(mu)
    /\ mu' = [mu EXCEPT !.readers = @ + 1]
    /\ req' = [req EXCEPT !.pc = "rlocked", !.handler = handler,
                          !.timeout = timeout, !.welpenschutz = welpenschutz]
    /\ hist' = [hist EXCEPT !.requests = @ + 1]
    /\ UNCHANGED <<now, c, startup, calls, errors, attachVars, fs, startEvents, endEvents, pc, mStart, mEnd,
                   runState, metrics, resp, scrapeVars>>

\* healthHandler: x.writeStatusResponse(w, x.c.HealthTimeout, x.c.Welpenschutz)
healthHandler == StatusRequest("health", c.HealthTimeout, c.Welpenschutz)

\* the grace period of the health probe passed to the liveness probe too
livenessHandlerWithGrace ==
    StatusRequest("liveness", c.LivenessTimeout, c.Welpenschutz)

\* livenessHandler: x.writeStatusResponse(w, x.c.LivenessTimeout, 0)
livenessHandler == StatusRequest("liveness", c.LivenessTimeout, 0)

\* writeStatusResponse: myEnd := x.end; x.mu.RUnlock()
ReadEnd ==
    /\ req.pc = "rlocked"
    /\ req' = [req EXCEPT !.pc = "respond", !.myEnd = end]
    /\ mu' = [mu EXCEPT !.readers = @ - 1]
    /\ UNCHANGED <<now, c, startup, calls, errors, attachVars, fs, startEvents, endEvents, pc, mStart, mEnd,
                   runState, metrics, resp, scrapeVars, hist>>

\* t.Format(time.RFC3339Nano): the text of the instant, one text per
\* instant, "0001-01-01T00:00:00Z" for the zero time
Format(t) == <<"RFC3339Nano", t>>

\* time.Time{} printed with %s
Never == <<"String", ZeroTime>>

\* the response is written with http.StatusOK whatever good is
StatusAlwaysOK(good) == 200

\* writeStatusResponse: http.StatusOK if good, else http.Error with
\* http.StatusServiceUnavailable
Status(good) == IF good THEN 200 ELSE 503

\* writeStatusResponse: the three lines of the body
Body(myEnd, good) ==
    <<<<"last_update", Format(myEnd)>>, <<"never", Never>>, <<"alive/healthy", good>>>>

\* writeStatusResponse: evaluate good and write the response
Respond ==
    /\ req.pc = "respond"
    /\ LET good == Good(Since(req.myEnd), Since(startup), req.timeout, req.welpenschutz)
       IN  resp' = [handler |-> req.handler,
                    status |-> Status(good),
                    good |-> good,
                    last_update |-> req.myEnd,
                    body |-> Body(req.myEnd, good)]
    /\ req' = NoRequest
    /\ UNCHANGED <<now, c, startup, calls, errors, attachVars, fs, startEvents, endEvents, pc, mStart, mEnd, mu,
                   runState, metrics, scrapeVars, hist>>

\* -------------------------------------------------------- metrics handler
\* a scrape arrives and PromHandler takes x.mu.RLock()
PromHandler ==
    /\ attach.pc = "done"
    /\ scrape.pc = "idle"
    /\ hist.scrapeBudget > 0
    /\ CanRLock(mu)
    /\ mu' = [mu EXCEPT !.readers = @ + 1]
    /\ scrape' = [scrape EXCEPT !.pc = "rlocked"]
    /\ hist' = [hist EXCEPT !.scrapes = @ + 1, !.scrapeBudget = @ - 1,
                            !.scrapeSaw = promUpdateCount]
    /\ UNCHANGED <<now, c, startup, calls, errors, attachVars, fs, startEvents, endEvents, pc, mStart, mEnd,
                   runState, metrics, req, resp, promUpdateAge>>

\* PromHandler: myEnd := x.end; x.mu.RUnlock()
ScrapeReadEnd ==
    /\ scrape.pc = "rlocked"
    /\ scrape' = [scrape EXCEPT !.pc = "set", !.myEnd = end]
    /\ mu' = [mu EXCEPT !.readers = @ - 1]
    /\ UNCHANGED <<now, c, startup, calls, errors, attachVars, fs, startEvents, endEvents, pc, mStart, mEnd,
                   runState, metrics, req, resp, promUpdateAge, hist>>

\* PromHandler: with a non-zero myEnd register the age gauge (once) and
\* set it to time.Since(myEnd), in seconds; then serve the scrape
SetAge ==
    /\ scrape.pc = "set"
    /\ IF ~IsZero(scrape.myEnd)
       THEN /\ registered' = registered \cup {"update_age_seconds"}
            /\ promUpdateAge' = Since(scrape.myEnd)
            /\ hist' = [hist EXCEPT
                          !.ageSets = @ + 1,
                          !.registrations["update_age_seconds"] =
                              IF OnceDo("update_age_seconds") THEN @ + 1 ELSE @]
       ELSE UNCHANGED <<registered, promUpdateAge, hist>>
    /\ scrape' = NoScrape
    /\ UNCHANGED <<now, c, startup, calls, errors, attachVars, fs, startEvents, endEvents, pc, mStart, mEnd, mu,
                   runState, promUpdateCount, promUpdateRunning, promUpdateDuration,
                   req, resp>>

\* ---------------------------------------------------------- createWatcher
\* configurations NewExporter attaches the watchers for: with and without
\* a start file, with a short and a longer directory timeout
AttachConfigs ==
    { [StartFile |-> sf, EndFile |-> ef, HealthTimeout |-> 1,
       LivenessTimeout |-> MaxDuration, Welpenschutz |-> 1,
       DirectoryTimeout |-> dt] :
          sf \in {"", "start"}, ef \in {"", "end"}, dt \in {2, 5} }

\* the end file is not asked for
ValidAlways(cfg) == TRUE

\* NewExporter: the configuration passes, x.c.EndFile != ""; an empty
\* StartFile is skipped over
Valid(cfg) == cfg.EndFile # ""

\* NewExporter: log.Fatalln ends the process when --end-file is not set
Validate ==
    /\ attach.pc = "validate"
    /\ attach' = [attach EXCEPT !.pc = IF Valid(c) THEN "call" ELSE "fatal"]
    /\ UNCHANGED <<now, c, startup, calls, errors, dirs, fs, startEvents, endEvents, pc, mStart,
                   mEnd, mu, runState, metrics, httpVars, hist>>

\* NewExporter: the argument of the createWatcher call for file f
filename(f) == IF f = "start" THEN c.StartFile ELSE c.EndFile

\* createWatcher returns: NewExporter goes on to the call for the end
\* file, after that to watch()
Returned(a) ==
    IF a.file = "start"
    THEN [a EXCEPT !.pc = "call", !.file = "end"]
    ELSE [a EXCEPT !.pc = "watch"]

\* the backoff grows by one second
DoubleByStep(b) == b + 1

\* createWatcher: the post statement of the retry loop, backoff *= 2
Double(b) == b * 2

\* the parent directory of file f is created
MkDir(f) ==
    /\ attach.pc \in {"validate", "call", "add", "wait"}
    /\ ~dirs[f]
    /\ dirs' = [dirs EXCEPT ![f] = TRUE]
    /\ hist' = [hist EXCEPT !.appeared[f] = now]
    /\ UNCHANGED <<now, c, startup, calls, errors, attach, fs, startEvents, endEvents, pc, mStart, mEnd,
                   mu, runState, metrics, httpVars>>

\* the clock advances while createWatcher blocks in its select, up to the
\* instant the earlier of its two timers fires
Sleep ==
    /\ attach.pc = "wait"
    /\ now < Epoch + MaxAttachT
    /\ now < attach.retryAt
    /\ now < attach.deadline
    /\ now' = now + 1
    /\ UNCHANGED <<c, startup, calls, errors, attachVars, fs, startEvents, endEvents, pc, mStart, mEnd,
                   mu, runState, metrics, httpVars, hist>>

\* createWatcher is called: an empty filename returns a watcher that never
\* delivers; else the deadline timer is set to fire at startup +
\* DirectoryTimeout and the retry loop is entered with a backoff of 1s
createWatcher ==
    /\ attach.pc = "call"
    /\ attach' = IF filename(attach.file) = ""
                 THEN Returned(attach)
                 ELSE [attach EXCEPT !.pc = "add", !.backoff = 1,
                                     !.deadline = startup + c.DirectoryTimeout]
    /\ hist' = [hist EXCEPT !.calledAt = now, !.k = 0]
    /\ UNCHANGED <<now, c, startup, calls, errors, dirs, fs, startEvents, endEvents, pc, mStart, mEnd,
                   mu, runState, metrics, httpVars>>

\* createWatcher: w.Add(dir) succeeds if the directory exists; else the
\* select is entered with time.After(backoff)
AddDir ==
    /\ attach.pc = "add"
    /\ IF dirs[attach.file]
       THEN /\ attach' = Returned(attach)
            /\ hist' = hist
       ELSE /\ attach' = [attach EXCEPT !.pc = "wait", !.retryAt = now + attach.backoff]
            /\ hist' = [hist EXCEPT !.k = @ + 1, !.failedAt = now]
    /\ UNCHANGED <<now, c, startup, calls, errors, dirs, fs, startEvents, endEvents, pc, mStart, mEnd,
                   mu, runState, metrics, httpVars>>

\* createWatcher: the select receives from time.After(backoff); continue
\* retry doubles the backoff
Retry ==
    /\ attach.pc = "wait"
    /\ now >= attach.retryAt
    /\ attach' = [attach EXCEPT !.pc = "add", !.backoff = Double(@)]
    /\ UNCHANGED <<now, c, startup, calls, errors, dirs, fs, startEvents, endEvents, pc, mStart, mEnd,
                   mu, runState, metrics, httpVars, hist>>

\* createWatcher: the select receives from deadline.C; x.log.Fatalf ends
\* the process
GiveUp ==
    /\ attach.pc = "wait"
    /\ now >= attach.deadline
    /\ attach' = [attach EXCEPT !.pc = "fatal"]
    /\ UNCHANGED <<now, c, startup, calls, errors, dirs, fs, startEvents, endEvents, pc, mStart, mEnd,
                   mu, runState, metrics, httpVars, hist>>

\* NewExporter: x.watch(startWatcher, endWatcher) starts the watch
\* goroutine, and NewExporter returns
watch ==
    /\ attach.pc = "watch"
    /\ attach' = [attach EXCEPT !.pc = "done"]
    /\ pc' = "measureStart"
    /\ UNCHANGED <<now, c, startup, calls, errors, dirs, fs, startEvents, endEvents, mStart, mEnd,
                   mu, runState, metrics, httpVars, hist>>

\* ------------------------------------------------------------------ Next
\* the files change and the watch goroutine follows them
Next ==
    \/ \E f \in {"start", "end"}, t \in Instants : Touch(f, t)
    \/ \E f \in {"start", "end"} : Remove(f)
    \/ RecvStartEvent
    \/ RecvEndEvent
    \/ MeasureStart
    \/ MeasureEnd
    \/ Lock
    \/ AssignStart
    \/ Update

Spec == Init /\ [][Next]_vars

\* the same with the clock advancing and health probes being served; both
\* probes are served in SpecProbe
InitServe == Boot(MaxServeChanges)

NextServe ==
    \/ Next
    \/ Tick
    \/ healthHandler
    \/ ReadEnd
    \/ Respond

SpecServe == InitServe /\ [][NextServe]_vars

\* the same for every probe configuration
InitProbe == BootWith(MaxServeChanges, {Epoch + 1}, ProbeConfigs)

\* without a start file the start watcher never delivers an event
NextProbe ==
    \/ \E t \in Instants : Touch("end", t)
    \/ Remove("end")
    \/ RecvEndEvent
    \/ MeasureStart
    \/ MeasureEnd
    \/ Lock
    \/ AssignStart
    \/ Update
    \/ Tick
    \/ healthHandler
    \/ livenessHandler
    \/ ReadEnd
    \/ Respond

SpecProbe == InitProbe /\ [][NextProbe]_vars

\* status requests and scrapes served side by side while the files change,
\* up to the status request's release of the read lock (what it answers
\* is in SpecServe and SpecProbe); the clock stands still, and the status
\* requests are health requests (liveness requests take the same path
\* through writeStatusResponse)
NextReaders ==
    \/ Next
    \/ healthHandler
    \/ ReadEnd
    \/ PromHandler
    \/ ScrapeReadEnd
    \/ SetAge

SpecReaders == InitServe /\ [][NextReaders]_vars

\* scrapes served while the files change; the clock stands still
NextScrape ==
    \/ Next
    \/ PromHandler
    \/ ScrapeReadEnd
    \/ SetAge

\* scrapes served while the end file changes and the clock advances;
\* there is no start file
NextLive ==
    \/ \E t \in Instants : Touch("end", t)
    \/ Remove("end")
    \/ RecvEndEvent
    \/ MeasureStart
    \/ MeasureEnd
    \/ Lock
    \/ AssignStart
    \/ Update
    \/ Tick
    \/ PromHandler
    \/ ScrapeReadEnd
    \/ SetAge

\* the scheduler lets the watch goroutine take every step it can take,
\* and a handler that holds the read lock goes on to release it
FairWatch ==
    /\ WF_vars(RecvEndEvent)
    /\ WF_vars(MeasureStart)
    /\ WF_vars(MeasureEnd)
    /\ WF_vars(Lock)
    /\ WF_vars(AssignStart)
    /\ WF_vars(Update)
    /\ WF_vars(ScrapeReadEnd)

InitLive == InitServe /\ fs["start"] = NoFile

SpecLive == InitLive /\ [][NextLive]_vars /\ FairWatch

\* the watch loop with the events its two watchers can deliver: events
\* about the watched files and events about other files
NextWatch ==
    \/ Next
    \/ \E w \in {"start", "end"}, name \in {"start", "end"} :
          OtherEvent(w, name)

SpecWatch == InitServe /\ [][NextWatch]_vars

\* the watch loop with the events about the watched files and the errors
\* of its two watchers
NextErrors ==
    \/ Next
    \/ \E w \in {"start", "end"} : WatcherError(w)
    \/ RecvStartError
    \/ RecvEndError

SpecErrors == InitServe /\ [][NextErrors]_vars

\* several scrapes, one after the other, with no fairness assumed
InitScrape == BootAll(MaxServeChanges, MaxSeqScrapes, {Epoch + 1}, Configs)

SpecScrape == InitScrape /\ [][NextScrape]_vars

\* NewExporter from its call (startup = now) to its return or its fatal
\* end: the directories may exist or not and may be created meanwhile
Construct(t, budget, configs) ==
    /\ now = t
    /\ startup = t
    /\ c \in configs
    /\ fs = [f \in {"start", "end"} |-> NoFile]
    /\ startEvents = <<>>
    /\ endEvents = <<>>
    /\ errors = NoErrors
    /\ pc = "new"
    /\ mStart = ZeroTime
    /\ mEnd = ZeroTime
    /\ mu = [writer |-> FALSE, readers |-> 0]
    /\ start = ZeroTime
    /\ end = ZeroTime
    /\ oldEnd = ZeroTime
    /\ promUpdateCount = 0
    /\ promUpdateRunning = 0
    /\ promUpdateDuration = <<>>
    /\ registered = {"update_count_total"}
    /\ req = NoRequest
    /\ resp = NoResponse
    /\ scrape = NoScrape
    /\ promUpdateAge = 0
    /\ attach = NotAttached
    /\ dirs \in [{"start", "end"} -> BOOLEAN]
    /\ calls = NoCalls
    /\ hist = [InitHist EXCEPT
                 !.budget = budget,
                 !.scrapeBudget = MaxScrapes,
                 !.registrations["update_count_total"] = 1,
                 !.appeared = [f \in {"start", "end"} |->
                                 IF dirs[f] THEN startup ELSE ZeroTime]]

\* the files do not change while NewExporter runs
InitAttach == Construct(Epoch, 0, AttachConfigs)

NextAttach ==
    \/ \E f \in {"start", "end"} : MkDir(f)
    \/ Validate
    \/ Sleep
    \/ createWatcher
    \/ AddDir
    \/ Retry
    \/ GiveUp
    \/ watch

SpecAttach == InitAttach /\ [][NextAttach]_vars

\* ------------------------------------------------ update() as activations
\* the update() calls in progress
Active(cs) == {i \in 1 .. MaxCalls : cs.act[i].pc # "none"}

\* every matching event starts update() in a goroutine of its own
Spawned(cs) == TRUE

\* watch(): x.update() is a plain call in the one goroutine watch()
\* starts, so the goroutine makes the next call, and reaches the select
\* again, only when the call before has returned
Sequential(cs) == Active(cs) = {}

\* activation i is the first one not in use
Free(cs, i) ==
    /\ cs.act[i].pc = "none"
    /\ \A j \in 1 .. (i - 1) : cs.act[j].pc # "none"

\* update() is entered as activation i: the next call in order
Begin(cs, i) ==
    [cs EXCEPT !.act[i] = [NoCall EXCEPT !.pc = "measureStart",
                                         !.seq = cs.begun + 1],
               !.begun = @ + 1]

\* watch(): the goroutine makes its first x.update() call, before the loop
CallInitial(i) ==
    /\ pc = "measureStart"
    /\ Free(calls, i)
    /\ calls' = Begin(calls, i)
    /\ pc' = "select"
    /\ UNCHANGED <<now, c, startup, errors, attachVars, fs, startEvents, endEvents, mStart, mEnd,
                   mu, runState, metrics, httpVars, hist>>

\* watch(): the select receives an event of watcher w and calls
\* x.update() as activation i if the event's base name is the file's
CallOnEvent(w, i) ==
    LET events == IF w = "start" THEN startEvents ELSE endEvents
        base == IF w = "start" THEN bs ELSE be
    IN  /\ pc = "select"
        /\ Sequential(calls)
        /\ Free(calls, i)
        /\ events # <<>>
        /\ startEvents' = IF w = "start" THEN Tail(startEvents) ELSE startEvents
        /\ endEvents' = IF w = "end" THEN Tail(endEvents) ELSE endEvents
        /\ calls' = IF Matches(Head(events), base) THEN Begin(calls, i) ELSE calls
        /\ UNCHANGED <<now, c, startup, errors, attachVars, fs, pc, mStart, mEnd, mu,
                       runState, metrics, httpVars, hist>>

\* update(), activation i: start := measure(x.c.StartFile)
CallMeasureStart(i) ==
    /\ calls.act[i].pc = "measureStart"
    /\ calls' = [calls EXCEPT !.act[i].mStart = measure(c.StartFile),
                              !.act[i].pc = "measureEnd"]
    /\ UNCHANGED <<now, c, startup, errors, attachVars, fs, startEvents, endEvents, pc, mStart,
                   mEnd, mu, runState, metrics, httpVars, hist>>

\* update(), activation i: end := measure(x.c.EndFile); the pair is
\* measured
CallMeasureEnd(i) ==
    /\ calls.act[i].pc = "measureEnd"
    /\ calls' = [calls EXCEPT !.act[i].mEnd = measure(c.EndFile),
                              !.act[i].pc = "lock",
                              !.measured = calls.act[i].seq,
                              !.pair = <<calls.act[i].mStart, measure(c.EndFile)>>]
    /\ UNCHANGED <<now, c, startup, errors, attachVars, fs, startEvents, endEvents, pc, mStart,
                   mEnd, mu, runState, metrics, httpVars, hist>>

\* update(), activation i, from x.mu.Lock() to the deferred Unlock: no
\* reader is about, so the critical section is one step
CallStore(i) ==
    /\ calls.act[i].pc = "lock"
    /\ CanLock(mu)
    /\ UpdateBody(calls.act[i].mStart, calls.act[i].mEnd)
    /\ calls' = [calls EXCEPT !.act[i] = NoCall, !.stored = calls.act[i].seq]
    /\ UNCHANGED <<now, c, startup, errors, attachVars, fs, startEvents, endEvents, pc, mStart,
                   mEnd, mu, httpVars>>

\* the files change while the watch goroutine makes its update() calls,
\* each call an activation with locals of its own
InitCalls == BootAll(MaxServeChanges, 0, {Epoch + 1}, Configs)

NextCalls ==
    \/ \E f \in {"start", "end"}, t \in Instants : Touch(f, t)
    \/ \E f \in {"start", "end"} : Remove(f)
    \/ \E i \in 1 .. MaxCalls : CallInitial(i)
    \/ \E w \in {"start", "end"}, i \in 1 .. MaxCalls : CallOnEvent(w, i)
    \/ \E i \in 1 .. MaxCalls : CallMeasureStart(i)
    \/ \E i \in 1 .. MaxCalls : CallMeasureEnd(i)
    \/ \E i \in 1 .. MaxCalls : CallStore(i)

SpecCalls == InitCalls /\ [][NextCalls]_vars

\* the whole life of the process: NewExporter is called one instant after
\* the epoch, so that a file may be older than startup, and when it has
\* returned the files change, the watchers deliver events and errors, and
\* scrapes are served
LifeConfigs ==
    {cfg \in AttachConfigs : cfg.StartFile # "" /\ cfg.DirectoryTimeout = 2}

InitLife ==
    /\ Construct(Epoch + 1, MaxServeChanges, LifeConfigs)
    /\ dirs["start"]

Serving ==
    /\ attach.pc = "done"
    /\ \/ Next
       \/ \E w \in {"start", "end"} : WatcherError(w)
       \/ RecvStartError
       \/ RecvEndError
       \/ PromHandler
       \/ ScrapeReadEnd
       \/ SetAge

NextLife ==
    \/ NextAttach
    \/ Serving

SpecLife == InitLife /\ [][NextLife]_vars

\* ================================================================ claims
\* the step in which an update() call takes effect, for the measured
\* start mStart and end mEnd
UpdateStep == pc = "assigned" /\ pc' = "select"

\* the watch goroutine is between two update() calls
Settled == pc = "select"

\* C1: updateCount never decreases, and one update() call raises it by 0
\* or by 1, whatever start and end it measured.
C1_CountStepsByAtMostOne ==
    [][promUpdateCount' \in {promUpdateCount, promUpdateCount + 1}]_vars

\* C1 witness: update() calls have raised the counter twice.
C1_Witness == promUpdateCount = 2

\* C2: an update() call that measures the non-absent end the call before
\* it measured (which that call stored in x.end) leaves updateCount
\* unchanged and observes no duration, whatever the two starts were.
C2_SameEndTwiceIsDebounced ==
    [][(UpdateStep /\ ~IsZero(mEnd) /\ mEnd = end)
         => /\ promUpdateCount' = promUpdateCount
            /\ promUpdateDuration' = promUpdateDuration]_vars

\* C2 witness: a run was counted, then a second update() measured the same
\* end with another start.
C2_Witness ==
    /\ Settled
    /\ hist.sameEnd
    /\ promUpdateCount = 1
    /\ ~IsZero(start)
    /\ promUpdateDuration = <<>>

\* C3: an update() call that measures a non-absent end different from
\* previousEnd, not before startup and not before start, raises updateCount
\* by exactly 1; with a non-absent start it observes exactly one duration,
\* end - start (0 when start = end), with an Absent start none.
C3_SaneNewEndIsCounted ==
    [][(UpdateStep /\ ~IsZero(mEnd) /\ mEnd # oldEnd
          /\ mEnd >= startup /\ mEnd >= mStart)
         => /\ promUpdateCount' = promUpdateCount + 1
            /\ promUpdateDuration' =
                  IF mStart # ZeroTime
                  THEN promUpdateDuration \o <<mEnd - mStart>>
                  ELSE promUpdateDuration]_vars

\* C3 witness: a run with start = end was counted and its duration 0
\* observed.
C3_Witness ==
    /\ Settled
    /\ ~IsZero(start)
    /\ start = end
    /\ promUpdateCount = 1
    /\ promUpdateDuration = <<0>>

\* C4: no observed duration is negative, and an update() call whose start
\* is after its end neither raises updateCount nor observes a duration.
C4_NoNegativeDuration ==
    /\ [](\A i \in 1..Len(promUpdateDuration) : promUpdateDuration[i] >= 0)
    /\ [][(UpdateStep /\ mStart > mEnd)
            => /\ promUpdateCount' = promUpdateCount
               /\ promUpdateDuration' = promUpdateDuration]_vars

\* C4 witness: the last update() measured a new end, not before startup,
\* with a start after it, and nothing was counted or observed.
C4_Witness ==
    /\ Settled
    /\ ~IsZero(end)
    /\ end >= startup
    /\ start > end
    /\ oldEnd = end
    /\ ~hist.sameEnd
    /\ promUpdateCount = 0
    /\ promUpdateDuration = <<>>

\* C5: an update() call whose end is before startup never raises
\* updateCount, and updateCount stays 0 until some update() has measured
\* an end that is not before startup (a left-over end file is not counted).
C5_StaleEndIsNotCounted ==
    /\ [](~hist.freshEnd => promUpdateCount = 0)
    /\ [][(UpdateStep /\ ~IsZero(mEnd) /\ mEnd < startup)
            => promUpdateCount' = promUpdateCount]_vars

\* C5 witness: an update() has measured a new end from before startup,
\* with no start after it, and the counter is still 0.
C5_Witness ==
    /\ Settled
    /\ ~IsZero(end)
    /\ end < startup
    /\ ~(start > end)
    /\ oldEnd = end
    /\ ~hist.freshEnd
    /\ promUpdateCount = 0

\* C6: an update() call that measured a non-absent start leaves
\* updateRunning at 1 if end is Absent or start is after end, else at 0;
\* the gauge never holds another value.
C6_RunningFollowsStartAndEnd ==
    /\ [](promUpdateRunning \in {0, 1})
    /\ [][(UpdateStep /\ mStart # ZeroTime)
            => promUpdateRunning' =
                  IF mEnd = ZeroTime \/ mStart > mEnd THEN 1 ELSE 0]_vars

\* C6 witness: an update() measured start = end, both non-absent, set the
\* gauge to 0 and counted the run.
C6_Witness ==
    /\ Settled
    /\ hist.ranSet
    /\ ~IsZero(start)
    /\ start = end
    /\ promUpdateRunning = 0
    /\ promUpdateDuration = <<0>>

\* C7, as claimed: an update() call that measures an Absent end never sets
\* updateRunning, regardless of the measured start.
C7_AbsentEndNeverSetsRunning ==
    [][(UpdateStep /\ IsZero(mEnd))
         => /\ ~hist'.ranSet
            /\ promUpdateRunning' = promUpdateRunning]_vars

\* C7, amended: an update() call that measures an Absent start never sets
\* (nor registers) updateRunning, regardless of the measured end; a call
\* that measures an Absent end with a non-absent start sets it to 1.
C7_AbsentStartNeverSetsRunning ==
    /\ [][(UpdateStep /\ IsZero(mStart))
            => /\ ~hist'.ranSet
               /\ promUpdateRunning' = promUpdateRunning
               /\ ("update_running" \in registered')
                     = ("update_running" \in registered)]_vars
    /\ [][(UpdateStep /\ IsZero(mEnd) /\ ~IsZero(mStart))
            => /\ hist'.ranSet
               /\ promUpdateRunning' = 1]_vars

\* C7 witness: the gauge was set to 1 by an earlier update(); the last
\* update() measured an Absent start and left it alone.
C7_Witness ==
    /\ Settled
    /\ IsZero(start)
    /\ ~hist.ranSet
    /\ promUpdateRunning = 1

\* C8, as claimed: updateCount is raised at most once for each distinct
\* end value, also when another end value was measured in between.
C8_CountedOncePerEndValue ==
    [][(UpdateStep /\ promUpdateCount' # promUpdateCount)
         => mEnd \notin hist.counted]_vars

\* C8, amended: updateCount is raised only by an update() call whose end
\* is non-absent and differs from the last non-absent end measured before
\* it, so at most once while the same end value keeps being measured; an
\* end value counted before is counted again when it is measured after a
\* different non-absent end value.
C8_CountedOncePerEndChange ==
    [][(UpdateStep /\ promUpdateCount' # promUpdateCount)
         => /\ ~IsZero(mEnd)
            /\ mEnd # hist.lastEnd]_vars

\* C8 witness: three runs were counted for two distinct end values
\* (E1, E2, E1).
C8_Witness ==
    /\ Settled
    /\ promUpdateCount = 3
    /\ Cardinality(hist.counted) = 2

\* C9: the end file did not exist at startup or was older, there is no
\* start file, and every change so far set the end file's mtime to a
\* different value not before startup, with one event each; once all
\* events are handled, updateCount equals the number of changes.
C9_CountedOncePerChange ==
    (/\ Settled
     /\ startEvents = <<>>
     /\ endEvents = <<>>
     /\ hist.onlyEndSets)
        => promUpdateCount = hist.endSets

RespondStep == req.pc = "respond" /\ req'.pc = "idle"

\* C11: the result of the liveness probe is a function of the liveness
\* timeout, the end read and the time alone (so it is the same in two runs
\* that differ in the grace period or in the startup time only); the
\* health probe uses the health timeout and the configured grace period.
C11_LivenessIgnoresGrace ==
    /\ [][(RespondStep /\ req.handler = "liveness")
            => resp'.good = (now - req.myEnd < c.LivenessTimeout)]_vars
    /\ [][(RespondStep /\ req.handler = "health")
            => resp'.good =
                  (\/ now - req.myEnd < c.HealthTimeout
                   \/ c.Welpenschutz > 0 /\ now - startup < c.Welpenschutz)]_vars

\* C11 witness: the liveness probe answered not good within the grace
\* period of the health probe.
C11_Witness ==
    /\ resp.handler = "liveness"
    /\ ~resp.good
    /\ c.Welpenschutz > 0
    /\ now - startup < c.Welpenschutz

\* readiness as the specification states it, for the end read, at the
\* time of the evaluation
Ok(myEnd, timeout, grace) ==
    \/ now - myEnd < timeout
    \/ grace > 0 /\ now - startup < grace

\* C12: a health or liveness request is answered with status 200 exactly
\* when the evaluated ok is true and with 503 exactly when it is false;
\* either way the body carries the end read from x.end (the zero time when
\* it is Absent) and the evaluated boolean.
C12_StatusFollowsOk ==
    [][RespondStep
         => LET ok == Ok(req.myEnd, req.timeout, req.welpenschutz)
            IN  /\ (resp'.status = 200) = ok
                /\ (resp'.status = 503) = ~ok
                /\ resp'.body[1] = <<"last_update", Format(req.myEnd)>>
                /\ resp'.body[3] = <<"alive/healthy", ok>>
                /\ resp'.handler \in {"health", "liveness"}]_vars

\* C12 witness: a request was answered 503 with a body that carries a
\* non-absent end and false.
C12_Witness ==
    /\ resp.status = 503
    /\ ~IsZero(resp.last_update)
    /\ resp.body[1] = <<"last_update", Format(resp.last_update)>>
    /\ resp.body[3] = <<"alive/healthy", FALSE>>

\* scenario A: no start file is configured and the end file has never
\* existed
ScenarioA == c.StartFile = "" /\ ~hist.endExisted

\* C13: in scenario A updateCount is 0 in every state, and the health
\* endpoint answers 200 at every time strictly inside the grace window
\* after startup and 503 at every time from the end of the window on.
C13_ScenarioA ==
    /\ [](ScenarioA => promUpdateCount = 0)
    /\ [][(RespondStep /\ req.handler = "health" /\ ScenarioA)
            => resp'.status =
                  IF now - startup < c.Welpenschutz THEN 200 ELSE 503]_vars

\* C13 witness: in scenario A the health endpoint answered 503 after the
\* grace window, with updateCount 0.
C13_Witness ==
    /\ ScenarioA
    /\ resp.handler = "health"
    /\ resp.status = 503
    /\ hist.updated
    /\ now - startup >= c.Welpenschutz
    /\ promUpdateCount = 0

\* C14 (scenario C): an update() that measures a start not before startup
\* while the end file is absent sets updateRunning to 1; when no end was
\* ever measured and the next update() measures an end later than the
\* start, it sets updateRunning to 0, raises updateCount by exactly 1 and
\* observes exactly one duration, end - start.
C14_ScenarioC ==
    /\ [][(UpdateStep /\ ~IsZero(mStart) /\ mStart >= startup /\ IsZero(mEnd))
            => promUpdateRunning' = 1]_vars
    /\ [][(UpdateStep /\ promUpdateRunning = 1 /\ IsZero(end)
             /\ IsZero(hist.lastEnd)
             /\ ~IsZero(mStart) /\ mStart >= startup /\ mEnd > mStart)
            => /\ promUpdateRunning' = 0
               /\ promUpdateCount' = promUpdateCount + 1
               /\ promUpdateDuration' = promUpdateDuration \o <<mEnd - mStart>>]_vars

\* C14 witness: the gauge was 1, then a run from start to a later end was
\* counted once and its duration observed.
C14_Witness ==
    /\ Settled
    /\ hist.wasRunning
    /\ promUpdateRunning = 0
    /\ start >= startup
    /\ end > start
    /\ promUpdateCount = 1
    /\ hist.counted = {end}
    /\ promUpdateDuration = <<end - start>>

\* C15 (scenario D): an update() that measures an end file with an mtime
\* earlier than the start file's leaves updateCount unchanged, observes no
\* duration and leaves updateRunning at 1.
C15_ScenarioD ==
    [][(UpdateStep /\ ~IsZero(mStart) /\ ~IsZero(mEnd) /\ mEnd < mStart)
         => /\ promUpdateCount' = promUpdateCount
            /\ promUpdateDuration' = promUpdateDuration
            /\ promUpdateRunning' = 1]_vars

\* C15 witness: the last update() measured an end earlier than the start;
\* the gauge is registered and 1, nothing is counted.
C15_Witness ==
    /\ Settled
    /\ ~IsZero(end)
    /\ end < start
    /\ oldEnd = end
    /\ "update_running" \in registered
    /\ promUpdateRunning = 1
    /\ promUpdateCount = 0
    /\ promUpdateDuration = <<>>

\* scenario B: no start file on disk and no end file from startup or
\* later to begin with, and the one change made so far gave the end file
\* an mtime not before startup
ScenarioB == hist.onlyEndSets /\ hist.endSets = 1

\* the step in which PromHandler sets the age gauge and serves the scrape
SetAgeStep == scrape.pc = "set" /\ scrape'.pc = "idle"

\* C16 (scenario B): once the end file was given an mtime not before
\* startup (the event is on the watcher's stream), and for as long as
\* nothing else is changed, updateCount eventually becomes 1 under fair
\* scheduling of the watch goroutine, and never more; a scrape that
\* starts after that sets the age gauge to now - that mtime.
C16_ScenarioB ==
    /\ ScenarioB ~> (promUpdateCount = 1 \/ ~ScenarioB)
    /\ [](ScenarioB => promUpdateCount <= 1)
    /\ [][(SetAgeStep /\ ScenarioB /\ hist.scrapeSaw = 1)
            => /\ promUpdateAge' = now - fs["end"]
               /\ "update_age_seconds" \in registered']_vars

\* C16 witness: the end file was created, counted, and a scrape one
\* instant after its mtime has set the age gauge to 1.
C16_Witness ==
    /\ ScenarioB
    /\ promUpdateCount = 1
    /\ hist.scrapeSaw = 1
    /\ scrape.pc = "idle"
    /\ "update_age_seconds" \in registered
    /\ now = fs["end"] + 1
    /\ promUpdateAge = 1

\* 2^n
RECURSIVE Pow2(_)
Pow2(n) == IF n = 0 THEN 1 ELSE 2 * Pow2(n - 1)

\* C17, as claimed: createWatcher never ends the process when the parent
\* directory came into existence strictly before the deadline (startup +
\* directory-timeout): it attaches instead.
C17_NotFatalIfDirAppearsBeforeDeadline ==
    attach.pc = "fatal"
        => ~(/\ hist.appeared[attach.file] # ZeroTime
             /\ hist.appeared[attach.file] < attach.deadline)

\* C18: in createWatcher the first attempt is made at once; the timer set
\* after the k-th failed attempt is 2^(k-1) seconds and the next attempt
\* is not made before it has fired; the retry loop is left only by a
\* successful attempt or by the deadline timer, which both createWatcher
\* calls set to startup + directory-timeout.
C18_ExponentialBackoff ==
    /\ [](attach.pc = "add" /\ hist.k = 0 => now = hist.calledAt)
    /\ [](attach.pc = "wait"
            => /\ hist.k >= 1
               /\ attach.backoff = Pow2(hist.k - 1)
               /\ attach.retryAt = hist.failedAt + Pow2(hist.k - 1))
    /\ [](attach.pc \in {"add", "wait"}
            => attach.deadline = startup + c.DirectoryTimeout)
    /\ [][(attach.pc = "wait" /\ attach'.pc = "add")
            => now >= hist.failedAt + Pow2(hist.k - 1)]_vars
    /\ [][(attach.pc \in {"add", "wait"} /\ attach'.pc \notin {"add", "wait"})
            => \/ attach.pc = "add" /\ dirs[attach.file]
               \/ /\ attach.pc = "wait"
                  /\ attach'.pc = "fatal"
                  /\ now >= attach.deadline]_vars

\* C18 witness: the end-file watcher, created after the start-file
\* watcher had to retry, has failed three times, at the call and 1 and 3
\* seconds after it, and waits 4 seconds.
C18_Witness ==
    /\ c.StartFile # ""
    /\ attach.file = "end"
    /\ attach.pc = "wait"
    /\ hist.calledAt > startup
    /\ hist.k = 3
    /\ hist.failedAt = hist.calledAt + 3
    /\ attach.backoff = 4
    /\ attach.retryAt = now + 4

\* C19: no reader holds the shared lock while the writer holds the
\* exclusive lock; while a reader holds it, x.start and x.end are the pair
\* the last completed update() stored (Absent before the first); every
\* end a status request or a scrape obtains is the end of that pair.
C19_ReadersSeeCompletedUpdate ==
    /\ [](~(mu.writer /\ mu.readers > 0))
    /\ [](mu.readers > 0 => start = hist.storedStart /\ end = hist.storedEnd)
    /\ [][(req.pc = "rlocked" /\ req'.pc = "respond")
            => req'.myEnd = hist.storedEnd]_vars
    /\ [][(scrape.pc = "rlocked" /\ scrape'.pc = "set")
            => scrape'.myEnd = hist.storedEnd]_vars

\* C19 witness: a status request and a scrape hold the read lock together
\* while update(), with a new end measured, waits for the write lock; the
\* scrape reads the end the completed update() stored.
C19_Witness ==
    /\ pc = "lock"
    /\ mu.readers = 1
    /\ req.pc = "rlocked"
    /\ scrape.pc = "set"
    /\ hist.updated
    /\ ~IsZero(end)
    /\ scrape.myEnd = end
    /\ mEnd # end

\* C20, as claimed: no status request reads x.end before the initial
\* update() has finished.
C20_NoAnswerBeforeInitialUpdate ==
    [][(req.pc = "rlocked" /\ req'.pc = "respond") => hist.updated]_vars

\* C28: every update() call overwrites the stored start and end with the
\* measured values; previousEnd changes only in an update() call whose
\* measured end is non-absent and differs from it, and then becomes that
\* end; a call with an Absent end or with end = previousEnd leaves
\* previousEnd, updateCount and the duration observations unchanged.
C28_FrameOfUpdate ==
    /\ [][UpdateStep => start' = mStart /\ end' = mEnd]_vars
    /\ [][oldEnd' # oldEnd
            => /\ UpdateStep
               /\ ~IsZero(mEnd)
               /\ mEnd # oldEnd
               /\ oldEnd' = mEnd]_vars
    /\ [][(UpdateStep /\ ~IsZero(mEnd) /\ mEnd # oldEnd) => oldEnd' = mEnd]_vars
    /\ [][(UpdateStep /\ (IsZero(mEnd) \/ mEnd = oldEnd))
            => /\ oldEnd' = oldEnd
               /\ promUpdateCount' = promUpdateCount
               /\ promUpdateDuration' = promUpdateDuration]_vars

\* C28 witness: after a counted run an update() measured a start and an
\* Absent end: start and end were overwritten, previousEnd was kept.
C28_Witness ==
    /\ Settled
    /\ ~IsZero(start)
    /\ IsZero(end)
    /\ ~IsZero(oldEnd)
    /\ oldEnd # start
    /\ promUpdateCount = 1

Measuring == pc \in {"measureStart", "measureEnd"}

\* C29: while update() measures the start or the end file the writer lock
\* is not held, so a reader can take the read lock at once; the writer
\* lock is held only between Lock() and the return of update().
C29_NoMeasureUnderLock ==
    /\ [](Measuring => ~mu.writer /\ CanRLock(mu))
    /\ [](mu.writer <=> pc \in {"locked", "assigned"})
    /\ [][(Measuring /\ req.pc = "idle" /\ hist.requests < MaxRequests)
            => ENABLED healthHandler]_vars

\* C29 witness: a status request took the read lock and read x.end while
\* a later update() was measuring the end file.
C29_Witness ==
    /\ pc = "measureEnd"
    /\ hist.updated
    /\ req.pc = "respond"
    /\ req.myEnd = hist.storedEnd
    /\ ~IsZero(req.myEnd)

\* C25: with an empty start-file path the start watcher never delivers an
\* event and every update() measures an Absent start, so the running gauge
\* and the duration summary are never registered and no duration is ever
\* observed; updateCount counts every new end not before startup and a
\* scrape sets the age gauge to now - end, as with an end file alone.
C25_NoStartFile ==
    /\ [](c.StartFile = ""
            => /\ startEvents = <<>>
               /\ IsZero(mStart)
               /\ IsZero(start)
               /\ "update_running" \notin registered
               /\ "update_duration_seconds" \notin registered
               /\ promUpdateDuration = <<>>)
    /\ [][(UpdateStep /\ c.StartFile = "")
            => promUpdateCount' =
                  IF ~IsZero(mEnd) /\ mEnd # oldEnd /\ mEnd >= startup
                  THEN promUpdateCount + 1
                  ELSE promUpdateCount]_vars
    /\ [][(SetAgeStep /\ c.StartFile = "" /\ ~IsZero(scrape.myEnd))
            => /\ promUpdateAge' = now - scrape.myEnd
               /\ "update_age_seconds" \in registered']_vars

\* C25 witness: without a start file a run was counted and a scrape one
\* instant after its end set the age gauge; only the counter and the age
\* gauge are registered.
C25_Witness ==
    /\ c.StartFile = ""
    /\ Settled
    /\ promUpdateCount = 1
    /\ hist.ageSets > 0
    /\ promUpdateAge = 1
    /\ registered = {"update_count_total", "update_age_seconds"}

\* C26, as claimed: every scrape sets the age gauge to now - end for the
\* end it read, against the zero time when that end is Absent.
C26_AgeRecomputedAtEveryScrape ==
    [][SetAgeStep
         => /\ promUpdateAge' = Since(scrape.myEnd)
            /\ "update_age_seconds" \in registered']_vars

RecvStartStep ==
    pc = "select" /\ startEvents # <<>> /\ startEvents' = Tail(startEvents)

RecvEndStep ==
    pc = "select" /\ endEvents # <<>> /\ endEvents' = Tail(endEvents)

\* the step in which the select receives a watcher error
RecvErrorStep == hist'.errorsSeen = hist.errorsSeen + 1

\* C24: an event from the start (end) watcher starts an update() call if
\* its base name is the start (end) file's and otherwise changes neither
\* start, end, previousEnd nor any metric; nothing else starts an update()
\* call, so the calls begun are the initial one and one per matching event
\* received.
C24_EventsAreFiltered ==
    /\ [][RecvStartStep
            => /\ pc' = IF Head(startEvents) = bs THEN "measureStart" ELSE "select"
               /\ UNCHANGED <<runState, metrics, mStart, mEnd, promUpdateAge>>]_vars
    /\ [][RecvEndStep
            => /\ pc' = IF Head(endEvents) = be THEN "measureStart" ELSE "select"
               /\ UNCHANGED <<runState, metrics, mStart, mEnd, promUpdateAge>>]_vars
    /\ [][(pc = "select" /\ pc' # "select")
            => /\ pc' = "measureStart"
               /\ \/ RecvStartStep /\ Head(startEvents) = bs
                  \/ RecvEndStep /\ Head(endEvents) = be]_vars
    /\ [](hist.calls + (IF pc = "measureStart" THEN 1 ELSE 0) = 1 + hist.matched)

\* C24 witness: an event about another file and an event about a watched
\* file were received; update() was called for the second only.
C24_Witness ==
    /\ Settled
    /\ hist.others = 1
    /\ hist.budget = 0
    /\ startEvents = <<>>
    /\ endEvents = <<>>
    /\ hist.matched = 1
    /\ hist.calls = 2

\* C22: receiving a watcher error changes no run state and no metric and
\* leaves the watch loop at its select; a matching event received after
\* an error still starts an update() call, and the loop never stops.
C22_ErrorsAreNoise ==
    /\ [][RecvErrorStep
            => /\ pc = "select"
               /\ pc' = "select"
               /\ UNCHANGED <<runState, metrics, mStart, mEnd, mu, fs,
                              startEvents, endEvents, promUpdateAge>>]_vars
    /\ [][(hist.errorsSeen > 0 /\ RecvStartStep /\ Head(startEvents) = bs)
            => pc' = "measureStart"]_vars
    /\ [][(hist.errorsSeen > 0 /\ RecvEndStep /\ Head(endEvents) = be)
            => pc' = "measureStart"]_vars
    /\ [](pc = "select" /\ endEvents # <<>> => ENABLED RecvEndEvent)
    /\ [](pc = "select" /\ startEvents # <<>> => ENABLED RecvStartEvent)
    /\ [](pc \in {"select", "measureStart", "measureEnd", "lock", "locked",
                  "assigned"})

\* C22 witness: the end file was created after a watcher error had been
\* received, and the update() for its event counted the run.
C22_Witness ==
    /\ Settled
    /\ hist.errorsSeen = 1
    /\ hist.matchedAfterError
    /\ hist.calls = 2
    /\ ScenarioB
    /\ promUpdateCount = 1
    /\ end = fs["end"]

\* C21: with an empty end-file path NewExporter ends the process before
\* it calls createWatcher, before it starts the watch goroutine and before
\* the server answers any request; an empty start-file path passes, and
\* with it NewExporter is fatal only when the end file's directory is
\* missing until the deadline.
C21_EndFileIsMandatory ==
    /\ [][(attach.pc = "validate" /\ attach'.pc # "validate")
            => attach'.pc = IF c.EndFile = "" THEN "fatal" ELSE "call"]_vars
    /\ [](c.EndFile = ""
            => /\ attach.pc \in {"validate", "fatal"}
               /\ pc = "new"
               /\ hist.calledAt = ZeroTime
               /\ ~ENABLED healthHandler
               /\ ~ENABLED livenessHandler
               /\ ~ENABLED PromHandler)
    /\ []((c.StartFile = "" /\ c.EndFile # "" /\ attach.pc = "fatal")
            => attach.file = "end" /\ hist.k > 0 /\ now >= attach.deadline)

\* C21 witness: NewExporter ended the process for an empty end-file path,
\* in the instant it was called in.
C21_Witness ==
    /\ c.EndFile = ""
    /\ attach.pc = "fatal"
    /\ now = startup
    /\ pc = "new"

\* the process has ended: NewExporter was fatal, or the watch goroutine
\* panicked or left its loop
Terminated ==
    \/ attach.pc = "fatal"
    \/ pc \notin {"new", "select", "measureStart", "measureEnd", "lock",
                  "locked", "assigned"}

\* C23: when NewExporter has returned the process never ends, whatever
\* the files, the watchers and the requests do: NewExporter stays
\* returned and the watch goroutine stays in its loop; the process ends
\* only in NewExporter, by the validation of the configuration or by the
\* deadline of a directory attach, before the watch goroutine exists.
C23_NoTerminationAfterConstruction ==
    /\ [](attach.pc = "done" => ~Terminated)
    /\ [][attach.pc = "done" => attach'.pc = "done"]_vars
    /\ [][(~Terminated /\ Terminated')
            => /\ pc = "new"
               /\ pc' = "new"
               /\ \/ attach.pc = "validate" /\ c.EndFile = ""
                  \/ attach.pc = "wait" /\ now >= attach.deadline]_vars
    /\ [](Terminated => pc = "new" /\ promUpdateCount = 0 /\ hist.scrapes = 0)

\* C23 witness: after NewExporter returned, an end file older than startup
\* was measured and rejected beside an absent start file, a watcher error
\* was received and a scrape was served, and the watch goroutine waits in its select.
C23_Witness ==
    /\ attach.pc = "done"
    /\ Settled
    /\ c.StartFile # ""
    /\ hist.rejectedOld
    /\ fs["start"] = NoFile
    /\ end # ZeroTime
    /\ end < startup
    /\ hist.errorsSeen = 1
    /\ startEvents = <<>>
    /\ endEvents = <<>>
    /\ hist.scrapes = 1
    /\ scrape.pc = "idle"

\* C31: an update() call that measures an Absent start and a non-absent
\* end different from previousEnd and not before startup raises
\* updateCount by 1 and does not reject the end; a call that measures an
\* Absent end neither counts nor rejects anything, whatever start and
\* startup are.
C31_AbsentStartIsNotInsane ==
    /\ [][(UpdateStep /\ IsZero(mStart) /\ ~IsZero(mEnd) /\ mEnd # oldEnd
             /\ mEnd >= startup)
            => /\ promUpdateCount' = promUpdateCount + 1
               /\ ~hist'.rejectedOld
               /\ mEnd \in hist'.counted]_vars
    /\ [][(UpdateStep /\ IsZero(mEnd))
            => /\ promUpdateCount' = promUpdateCount
               /\ promUpdateDuration' = promUpdateDuration
               /\ oldEnd' = oldEnd
               /\ hist'.rejectedOld = hist.rejectedOld
               /\ hist'.counted = hist.counted]_vars

\* C31 witness: the start file is configured and missing, two ends not
\* before startup were measured beside it and both were counted.
C31_Witness ==
    /\ Settled
    /\ c.StartFile # ""
    /\ IsZero(start)
    /\ ~hist.sawStart
    /\ end >= startup
    /\ oldEnd = end
    /\ ~hist.rejectedOld
    /\ promUpdateCount = 2
    /\ promUpdateDuration = <<>>

\* C32: in every state the stored end is Absent or equal to previousEnd,
\* and previousEnd is the last non-absent end an update() call measured
\* (Absent before any); it changes only in an update() call, to the end
\* that call measured.
C32_PreviousEndFollowsEnd ==
    /\ [](IsZero(end) \/ oldEnd = end)
    /\ [](oldEnd = hist.lastEnd)
    /\ [](~hist.updated => IsZero(oldEnd))
    /\ [][oldEnd' # oldEnd => UpdateStep /\ oldEnd' = mEnd /\ end' = mEnd]_vars

\* C32 witness: an end from before startup was measured and rejected, and
\* it is the stored end and previousEnd.
C32_Witness ==
    /\ Settled
    /\ hist.updated
    /\ hist.rejectedOld
    /\ ~IsZero(end)
    /\ end < startup
    /\ oldEnd = end
    /\ hist.lastEnd = end
    /\ pc = "select"
    /\ startEvents = <<>>
    /\ endEvents = <<>>

\* C33: there are never more duration observations than updateCount
\* counts, and a step that raises updateCount or observes a duration is
\* an update() call that changes previousEnd to a different value.
C33_DurationsWithinCount ==
    /\ [](Len(promUpdateDuration) <= promUpdateCount)
    /\ [][(promUpdateCount' # promUpdateCount
             \/ promUpdateDuration' # promUpdateDuration)
            => /\ UpdateStep
               /\ oldEnd' # oldEnd
               /\ oldEnd' = mEnd
               /\ promUpdateCount' = promUpdateCount + 1
               /\ Len(promUpdateDuration') <= Len(promUpdateDuration) + 1]_vars

\* C33 witness: two runs were counted, one of them with a start file and a
\* duration, the other without.
C33_Witness ==
    /\ Settled
    /\ promUpdateCount = 2
    /\ Len(promUpdateDuration) = 1

\* C34: updateRunning changes only in an update() call that measured a
\* non-absent start, to the value start and end give; a call that
\* measured an Absent start leaves it as the last call that saw a start
\* file set it, also when the end it measured is new and counted.
C34_AbsentStartKeepsRunning ==
    /\ [][(UpdateStep /\ IsZero(mStart))
            => /\ promUpdateRunning' = promUpdateRunning
               /\ start' = ZeroTime]_vars
    /\ [][promUpdateRunning' # promUpdateRunning
            => /\ UpdateStep
               /\ ~IsZero(mStart)
               /\ promUpdateRunning' = Running(mStart, mEnd)]_vars
    /\ [](promUpdateRunning \in {0, 1})
    /\ [](promUpdateRunning = 1 => hist.sawStart /\ hist.wasRunning)

\* C34 witness: the start file was seen and the gauge set to 1; the start
\* file disappeared, the run's end was measured and counted beside an
\* Absent start, and the gauge is still 1.
C34_Witness ==
    /\ Settled
    /\ hist.sawStart
    /\ fs["start"] = NoFile
    /\ IsZero(start)
    /\ ~IsZero(end)
    /\ promUpdateCount = 1
    /\ promUpdateDuration = <<>>
    /\ promUpdateRunning = 1

\* C35: at most one update() call is in progress at any time; the calls
\* store their pairs in the order they were begun and measured, each call
\* storing the pair measured last, so the stored start and end are the
\* most recently measured pair whenever no call is in progress.
C35_UpdateCallsDoNotOverlap ==
    /\ [](Cardinality(Active(calls)) <= 1)
    /\ [][calls'.begun # calls.begun
            => Active(calls) = {} /\ calls.stored = calls.begun]_vars
    /\ [][calls'.stored >= calls.stored]_vars
    /\ [][calls'.stored # calls.stored
            => /\ calls'.stored = calls.measured
               /\ <<start', end'>> = calls.pair]_vars
    /\ [][<<start', end'>> # <<start, end>> => calls'.stored # calls.stored]_vars
    /\ []((Active(calls) = {} /\ calls.begun > 0)
            => /\ calls.stored = calls.begun
               /\ calls.measured = calls.begun
               /\ <<start, end>> = calls.pair)

\* C35 witness: two update() calls were made one after the other, the end
\* file was written in between, and the pair the second call measured is
\* stored.
C35_Witness ==
    /\ Active(calls) = {}
    /\ calls.begun = 2
    /\ calls.stored = 2
    /\ hist.budget = 0
    /\ startEvents = <<>>
    /\ endEvents = <<>>
    /\ <<start, end>> = <<measure(c.StartFile), measure(c.EndFile)>>
    /\ ~IsZero(start)
    /\ ~IsZero(end)
    /\ promUpdateCount = 1

\* C36: a liveness probe that read an Absent end answers 503, not good,
\* at any time from startup on and for the longest liveness timeout too;
\* a liveness probe answers 200 only with a non-absent end that an
\* update() call stored and whose age is below the liveness timeout.
C36_LivenessNeedsAnEnd ==
    /\ [][(req.pc = "rlocked" /\ req'.pc = "respond") => req'.myEnd = end]_vars
    /\ [][(RespondStep /\ req.handler = "liveness" /\ IsZero(req.myEnd))
            => /\ resp'.status = 503
               /\ ~resp'.good]_vars
    /\ [][(RespondStep /\ req.handler = "liveness" /\ resp'.status = 200)
            => /\ ~IsZero(req.myEnd)
               /\ hist.updated
               /\ now - req.myEnd < c.LivenessTimeout]_vars
    /\ []((resp.handler = "liveness" /\ resp.status = 200)
            => hist.updated /\ ~IsZero(resp.last_update))

\* C36 witness: with the longest liveness timeout and a grace period
\* configured, the liveness probe answered 503 for an Absent end in the
\* instant of startup.
C36_Witness ==
    /\ req.pc = "idle"
    /\ resp.handler = "liveness"
    /\ resp.status = 503
    /\ IsZero(resp.last_update)
    /\ IsZero(end)
    /\ now = startup
    /\ c.LivenessTimeout = MaxDuration
    /\ c.Welpenschutz > 0

====
